---- MODULE Spec2Model ----
(***************************************************************************)
(* rpt2paste: PadCollector (src/main.cc), the event dispatch of RptParse   *)
(* (src/rpt-parser.cc) and the pipeline of main (src/main.cc).             *)
(*                                                                         *)
(* Three specifications.  Spec runs main from the first event to Finish,   *)
(* taking the events RptParse delivers as given.  RenderSpec runs main     *)
(* from the return of RptParse, over any accepted list.  ParseSpec runs    *)
(* the loop of RptParse over the tokens of std::cin, with the stream's     *)
(* eofbit and failbit; the first two leave the stream aside.               *)
(*                                                                         *)
(* Numbers.  The program computes in float.  The model keeps the values    *)
(* exact by fixed point: the lengths of the report (inches) are integers,  *)
(* the stored pad coordinates are tenths of a millimetre (so that the      *)
(* factor 25.4 is the integer 254), the stored area is hundredths of a     *)
(* square millimetre (254 * 254), and angles are whole degrees, multiples  *)
(* of 90, where cos and sin are exactly -1, 0 or 1.  angle_ holds radians  *)
(* in the code; the model holds the same angle in degrees (r = pi*d/180).  *)
(*                                                                         *)
(* Pointers.  A Pad* is a sequence of length at most one: NULL is <<>>,    *)
(* and a pointer to a pad is <<pad>>.                                      *)
(***************************************************************************)
EXTENDS Integers, Sequences, FiniteSets, TLC

\* The number of events RptParse delivers in one run.
MaxEvents == 5
\* The length of the accepted list main starts from in RenderSpec.
MaxPads == 3
\* The number of tokens on std::cin in ParseSpec.
MaxTokens == 3

\* static const float coordinate_factor = 25.4f, in tenths.
coordinate_factor == 254
\* static float offset_x = 50, offset_y = 50 (millimetres), in tenths.
offset_x == 500
offset_y == 500

\* The arguments the report's events carry.
Points == {<<0, 0>>, <<1, 0>>, <<10, 10>>}
Angles == {0, 90, 180}
Sizes == {<<1, 1>>, <<2, 3>>}
DrillSizes == {0, 8}
\* What a read of the never-initialized angle_ may yield (degrees).
GarbageAngles == {0, 90}
\* What a read through a NULL Pad* may yield, when the read does not trap.
GarbagePads == {[x |-> 0, y |-> 0, drill |-> 0, area |-> 0],
                [x |-> 70, y |-> -30, drill |-> 8, area |-> 5]}

\* The accepted pads RenderSpec draws its lists from: surface-mount pads at
\* positions the collector produces from Points and Angles ((0,-254) is the offset
\* (1,0) under Orientation 90; (2794,2540) is (1,0) in a component at (10,10)).
RenderPads ==
    {[x |-> p[1], y |-> p[2], drill |-> 0, area |-> a] :
        p \in {<<0, 0>>, <<254, 0>>, <<0, -254>>, <<2540, 2540>>, <<2794, 2540>>},
        a \in {0, 64516}}

VARIABLES
    pc,            \* where main is: parse, bbox, init, render, done, aborted, crashed
    ndebug,        \* the build: TRUE when assert() is compiled out (NDEBUG)
    origin_x_,     \* PadCollector::origin_x_
    origin_y_,     \* PadCollector::origin_y_
    angle_,        \* PadCollector::angle_
    current_pad_,  \* PadCollector::current_pad_
    pads,          \* main's pads, which collected_pads_ points to
    nevents,       \* events delivered so far
    min_x, min_y, max_x, max_y,   \* main's bounding box
    i,             \* main's render loop index (1-based)
    out,           \* the calls made on the Printer, in order
    \* History, written by no code and read by no action's guard:
    last,          \* the event handled last
    comp,          \* the spec's component state: idle, fresh (open, not placed), placed
    orientation,   \* <<angle>> of the last Orientation taken with no pad open, else <<>>
    wellformed,    \* no StartPad met an open pad and no EndPad met no pad
    n_end,         \* EndPad events handled
    n_drilled,     \* EndPad events that met an open pad with drill # 0
    \* std::cin and the loop of RptParse (ParseSpec):
    input,         \* the tokens not yet extracted
    tail,          \* TRUE when white space follows the last token
    eofbit,        \* std::ios_base::eofbit of the stream
    failbit,       \* std::ios_base::failbit of the stream
    at             \* where RptParse is: while (the loop test) or body

collector == <<origin_x_, origin_y_, angle_, current_pad_, pads>>
bbox == <<min_x, min_y, max_x, max_y>>
counts == <<comp, orientation, wellformed, n_end, n_drilled>>
history == <<last, counts>>
stream == <<input, tail, eofbit, failbit, at>>
vars == <<pc, ndebug, collector, nevents, bbox, i, out, history, stream>>

NULL == <<>>
Deref(p) == p[1]
\* Pad() : x(0), y(0), drill(0), area(0)
NewPad == [x |-> 0, y |-> 0, drill |-> 0, area |-> 0]

\* cos and sin of math.h on the multiples of 90 degrees.
cos(d) == CASE d % 360 = 0 -> 1
            [] d % 360 = 90 -> 0
            [] d % 360 = 180 -> -1
            [] d % 360 = 270 -> 0
sin(d) == CASE d % 360 = 0 -> 0
            [] d % 360 = 90 -> 1
            [] d % 360 = 180 -> 0
            [] d % 360 = 270 -> -1

\* PadCollector::rotateXY
rotateXY(x, y, a) == <<x * cos(a) - y * sin(a), x * sin(a) + y * cos(a)>>

\* A mutant of PadPosition: the rotation is left out.
PadPosition_NoRotation(x, y, ox, oy, a) ==
    <<(ox + x) * coordinate_factor, (oy + y) * coordinate_factor>>
\* PadCollector::Position, the branch current_pad_ != NULL
PadPosition(x, y, ox, oy, a) ==
    LET r == rotateXY(x, y, a)
    IN <<(ox + r[1]) * coordinate_factor, (oy + r[2]) * coordinate_factor>>

\* The factor is applied once (a fault: an area scales with its square).
PadArea_ScaledOnce(w, h) == w * coordinate_factor * h
\* PadCollector::Size: w * coordinate_factor * coordinate_factor * h
PadArea(w, h) == w * coordinate_factor * coordinate_factor * h

\* A mutant of AngleOf: the negation is left out.
AngleOf_NotNegated(angle) == angle
\* PadCollector::Orientation: angle_ = -M_PI * angle / 180.0
AngleOf(angle) == -angle

\* A mutant of OrientationTakes: the angle is taken with a pad open as well.
OrientationTakes_Always(pad) == TRUE
\* PadCollector::Orientation: if (current_pad_ == NULL)
OrientationTakes(pad) == pad = NULL

\* A mutant of IsThroughHole: no pad is taken for a through-hole pad.
IsThroughHole_Never(pad) == FALSE
\* A mutant of IsThroughHole: the test is the wrong way round.
IsThroughHole_Inverted(pad) == pad.drill = 0
\* PadCollector::EndPad: current_pad_->drill != 0
IsThroughHole(pad) == pad.drill # 0

\* The origin is scaled as it is stored (a fault: the factor would apply twice).
OriginOf_Scaled(x, y) == <<x * coordinate_factor, y * coordinate_factor>>
\* PadCollector::Position, the branch current_pad_ == NULL: origin_x_ = x; origin_y_ = y
OriginOf(x, y) == <<x, y>>

\* The stream as Spec and RenderSpec hold it: not looked at.
StreamAside ==
    /\ input = <<>>
    /\ tail = FALSE
    /\ eofbit = FALSE
    /\ failbit = FALSE
    /\ at = "while"

\* The assert of Drill never fails (a fault the Drill claim must detect).
DrillAssertFails_Never(pad) == FALSE
\* PadCollector::Drill: assert(current_pad_ != NULL), in a build that keeps it
DrillAssertFails(pad) == pad = NULL /\ ~ndebug

Init ==
    /\ pc = "parse"
    /\ ndebug \in BOOLEAN
    /\ origin_x_ = 0
    /\ origin_y_ = 0
    /\ angle_ \in GarbageAngles
    /\ current_pad_ = NULL
    /\ pads = <<>>
    /\ nevents = 0
    /\ min_x = 0 /\ min_y = 0 /\ max_x = 0 /\ max_y = 0
    /\ i = 0
    /\ out = <<>>
    /\ last = [ev |-> "none", a |-> 0, b |-> 0]
    /\ comp = "idle"
    /\ orientation = <<>>
    /\ wellformed = TRUE
    /\ n_end = 0
    /\ n_drilled = 0
    /\ StreamAside

\* One turn of RptParse's loop reads a token (and its numbers) and calls a handler.
Parsing == pc = "parse" /\ nevents < MaxEvents
Deliver(ev, a, b) ==
    /\ nevents' = nevents + 1
    /\ last' = [ev |-> ev, a |-> a, b |-> b]
    /\ UNCHANGED <<ndebug, stream, bbox, i, out>>

\* "$MODULE": assert(current_pad_ == NULL)
StartComponent ==
    /\ Parsing
    /\ Deliver("StartComponent", 0, 0)
    /\ IF current_pad_ # NULL /\ ~ndebug
       THEN pc' = "aborted" /\ UNCHANGED comp
       ELSE pc' = pc /\ comp' = "fresh"
    /\ UNCHANGED <<collector, orientation, wellformed, n_end, n_drilled>>

\* "$EndMODULE": { }
EndComponent ==
    /\ Parsing
    /\ Deliver("EndComponent", 0, 0)
    /\ comp' = "idle"
    /\ UNCHANGED <<pc, collector, orientation, wellformed, n_end, n_drilled>>

\* "$PAD": current_pad_ = new Pad()
StartPad ==
    /\ Parsing
    /\ Deliver("StartPad", 0, 0)
    /\ current_pad_' = <<NewPad>>
    /\ wellformed' = (wellformed /\ current_pad_ = NULL)
    /\ UNCHANGED <<pc, origin_x_, origin_y_, angle_, pads, comp, orientation,
                   n_end, n_drilled>>

\* The pad is put in front of the list.
PushBack_Front(list, p) == <<p>> \o list
\* pads_->push_back(current_pad_)
PushBack(list, p) == Append(list, p)

\* "$EndPAD".  With no pad open the read of current_pad_->drill is through NULL:
\* it traps, or it yields some value and the handler goes on with it.
EndPad ==
    /\ Parsing
    /\ Deliver("EndPad", 0, 0)
    /\ n_end' = n_end + 1
    /\ wellformed' = (wellformed /\ current_pad_ # NULL)
    /\ IF current_pad_ # NULL
       THEN /\ pads' = IF IsThroughHole(Deref(current_pad_))
                       THEN pads
                       ELSE PushBack(pads, current_pad_)
            /\ current_pad_' = NULL
            /\ n_drilled' = IF Deref(current_pad_).drill # 0
                            THEN n_drilled + 1 ELSE n_drilled
            /\ pc' = pc
       ELSE /\ n_drilled' = n_drilled
            /\ \/ pc' = "crashed" /\ UNCHANGED <<pads, current_pad_>>
               \/ \E g \in GarbagePads :
                    /\ pads' = IF IsThroughHole(g)
                               THEN pads
                               ELSE PushBack(pads, current_pad_)
                    /\ current_pad_' = NULL
                    /\ pc' = pc
    /\ UNCHANGED <<origin_x_, origin_y_, angle_, comp, orientation>>

\* "position" x y
Position ==
    /\ Parsing
    /\ \E p \in Points :
        /\ Deliver("Position", p[1], p[2])
        /\ IF current_pad_ # NULL
           THEN LET q == PadPosition(p[1], p[2], origin_x_, origin_y_, angle_)
                IN /\ current_pad_' =
                        <<[Deref(current_pad_) EXCEPT !.x = q[1], !.y = q[2]]>>
                   /\ UNCHANGED <<origin_x_, origin_y_, comp>>
           ELSE /\ origin_x_' = OriginOf(p[1], p[2])[1]
                /\ origin_y_' = OriginOf(p[1], p[2])[2]
                /\ comp' = IF comp = "fresh" THEN "placed" ELSE comp
                /\ UNCHANGED current_pad_
    /\ UNCHANGED <<pc, angle_, pads, orientation, wellformed, n_end, n_drilled>>

\* "size" w h
Size ==
    /\ Parsing
    /\ \E s \in Sizes :
        /\ Deliver("Size", s[1], s[2])
        /\ IF current_pad_ = NULL
           THEN UNCHANGED current_pad_
           ELSE current_pad_' =
                    <<[Deref(current_pad_) EXCEPT !.area = PadArea(s[1], s[2])]>>
    /\ UNCHANGED <<pc, origin_x_, origin_y_, angle_, pads, counts>>

\* "drill" dia: assert(current_pad_ != NULL).  Compiled without the assert, the
\* store current_pad_->drill = size goes through NULL: it traps, or it lands
\* outside the collector's state.
Drill ==
    /\ Parsing
    /\ \E d \in DrillSizes :
        /\ Deliver("Drill", d, 0)
        /\ IF current_pad_ # NULL
           THEN /\ current_pad_' = <<[Deref(current_pad_) EXCEPT !.drill = d]>>
                /\ pc' = pc
           ELSE /\ UNCHANGED current_pad_
                /\ IF DrillAssertFails(current_pad_)
                   THEN pc' = "aborted"
                   ELSE pc' \in {"crashed", pc}
    /\ UNCHANGED <<origin_x_, origin_y_, angle_, pads, counts>>

\* "orientation" angle
Orientation ==
    /\ Parsing
    /\ \E angle \in Angles :
        /\ Deliver("Orientation", angle, 0)
        /\ IF OrientationTakes(current_pad_)
           THEN /\ angle_' = AngleOf(angle)
                /\ orientation' = <<angle>>
                /\ comp' = IF comp = "fresh" THEN "placed" ELSE comp
           ELSE UNCHANGED <<angle_, orientation, comp>>
    /\ UNCHANGED <<pc, origin_x_, origin_y_, current_pad_, pads, wellformed,
                   n_end, n_drilled>>

\* input->eof(): RptParse returns to main.
EndOfInput ==
    /\ pc = "parse"
    /\ pc' = "bbox"
    /\ UNCHANGED <<ndebug, stream, collector, nevents, bbox, i, out, history>>

\* The minimum keeps its first argument (a fault of the bounding box loop).
std_min_First(a, b) == a
std_min(a, b) == IF b < a THEN b ELSE a
std_max(a, b) == IF a < b THEN b ELSE a

\* main reads pads[0] and every pads[k]->x, ->y.  pads[0] of an empty vector and a
\* read through a NULL element are reads of memory the program does not own.
ReadsOutside == pads = <<>> \/ \E k \in 1..Len(pads) : pads[k] = NULL
\* The pads as main reads them, g standing for what such a read yields.
PadsRead(g) == [k \in 1..Len(pads) |-> IF pads[k] = NULL THEN g ELSE Deref(pads[k])]
FirstRead(g) == IF pads = <<>> THEN g ELSE PadsRead(g)[1]

\* main's bounding box loop: for (i = 0; i < pads.size(); ++i) min/max.
RECURSIVE BoundsLoop(_, _, _)
BoundsLoop(ps, k, acc) ==
    IF k > Len(ps)
    THEN acc
    ELSE BoundsLoop(ps, k + 1,
                    <<std_min(acc[1], ps[k].x), std_min(acc[2], ps[k].y),
                      std_max(acc[3], ps[k].x), std_max(acc[4], ps[k].y)>>)
\* float min_x = pads[0]->x, ...; then the loop.
Bounds(ps, first) == BoundsLoop(ps, 1, <<first.x, first.y, first.x, first.y>>)

BoundingBox ==
    /\ pc = "bbox"
    /\ \/ /\ ReadsOutside
          /\ pc' = "crashed"
          /\ UNCHANGED bbox
       \/ \E g \in (IF ReadsOutside THEN GarbagePads ELSE {NewPad}) :
            LET b == Bounds(PadsRead(g), FirstRead(g))
            IN /\ min_x' = b[1] /\ min_y' = b[2] /\ max_x' = b[3] /\ max_y' = b[4]
               /\ pc' = "init"
    /\ UNCHANGED <<ndebug, stream, collector, nevents, i, out, history>>

\* printer->Init(offset_x, offset_y, (max_x - min_x) + offset_x, (max_y - min_y) + offset_y)
PrinterInit ==
    /\ pc = "init"
    /\ out' = Append(out, [op |-> "Init", min_x |-> offset_x, min_y |-> offset_y,
                           max_x |-> (max_x - min_x) + offset_x,
                           max_y |-> (max_y - min_y) + offset_y])
    /\ i' = 1
    /\ pc' = "render"
    /\ UNCHANGED <<ndebug, stream, collector, nevents, bbox, history>>

\* A mutant of NextIndex: the loop steps over every other pad.
NextIndex_Skip(k) == k + 2
\* ++i of main's render loop
NextIndex(k) == k + 1

\* The y handed to the printer is taken from pad->x (a slip of one letter).
PadCall_YFromX(pad, k) ==
    [op |-> "Pad", x |-> pad.x + offset_x - min_x, y |-> max_y - pad.x + offset_y,
     area |-> pad.area, idx |-> k]
\* The y handed to the printer lacks offset_y.
PadCall_NoOffsetY(pad, k) ==
    [op |-> "Pad", x |-> pad.x + offset_x - min_x, y |-> max_y - pad.y,
     area |-> pad.area, idx |-> k]
\* printer->Pad(pad->x + offset_x - min_x, max_y - pad->y + offset_y, pad->area)
PadCall(pad, k) ==
    [op |-> "Pad", x |-> pad.x + offset_x - min_x, y |-> max_y - pad.y + offset_y,
     area |-> pad.area, idx |-> k]

\* One turn of main's render loop.
RenderPad ==
    /\ pc = "render"
    /\ i <= Len(pads)
    /\ \/ /\ pads[i] = NULL
          /\ pc' = "crashed"
          /\ UNCHANGED <<i, out>>
       \/ \E g \in (IF pads[i] = NULL THEN GarbagePads ELSE {NewPad}) :
            /\ out' = Append(out, PadCall(PadsRead(g)[i], i))
            /\ i' = NextIndex(i)
            /\ pc' = pc
    /\ UNCHANGED <<ndebug, stream, collector, nevents, bbox, history>>

\* Finish called without waiting for the render loop to run out.
PrinterFinish_Early ==
    /\ pc = "render"
    /\ out' = Append(out, [op |-> "Finish"])
    /\ pc' = "done"
    /\ UNCHANGED <<ndebug, stream, collector, nevents, bbox, i, history>>

\* printer->Finish(), once the render loop has run out.
PrinterFinish ==
    /\ pc = "render"
    /\ i > Len(pads)
    /\ out' = Append(out, [op |-> "Finish"])
    /\ pc' = "done"
    /\ UNCHANGED <<ndebug, stream, collector, nevents, bbox, i, history>>

Next ==
    \/ StartComponent
    \/ EndComponent
    \/ StartPad
    \/ EndPad
    \/ Position
    \/ Size
    \/ Drill
    \/ Orientation
    \/ EndOfInput
    \/ BoundingBox
    \/ PrinterInit
    \/ RenderPad
    \/ PrinterFinish

Spec == Init /\ [][Next]_vars

\* The lists of at most n pointers to pads of RenderPads.
PadLists(n) == UNION {[1..k -> {<<p>> : p \in RenderPads}] : k \in 0..n}

\* main when RptParse has returned: the collector has closed its last pad and the
\* accepted list is any list of at most MaxPads surface-mount pads.
RenderInit ==
    /\ pc = "bbox"
    /\ ndebug \in BOOLEAN
    /\ origin_x_ = 0
    /\ origin_y_ = 0
    /\ angle_ = 0
    /\ current_pad_ = NULL
    /\ pads \in PadLists(MaxPads)
    /\ nevents = 0
    /\ min_x = 0 /\ min_y = 0 /\ max_x = 0 /\ max_y = 0
    /\ i = 0
    /\ out = <<>>
    /\ last = [ev |-> "EndComponent", a |-> 0, b |-> 0]
    /\ comp = "idle"
    /\ orientation = <<0>>
    /\ wellformed = TRUE
    /\ n_end = Len(pads)
    /\ n_drilled = 0
    /\ StreamAside

RenderNext ==
    \/ BoundingBox
    \/ PrinterInit
    \/ RenderPad
    \/ PrinterFinish

RenderSpec == RenderInit /\ [][RenderNext]_vars

(***************************************************************************)
(* RptParse over the tokens of the stream.  The receiver is reached only   *)
(* through the interface ParseEventReceiver: a call is recorded in last    *)
(* and nevents, and the receiver's own state is left aside.                *)
(***************************************************************************)
Keywords == {"$MODULE", "$EndMODULE", "$PAD", "$EndPAD",
             "position", "size", "drill", "orientation"}
\* Tokens operator>>(float&) converts.
Numbers == {"1"}
\* The tokens of an input: the keywords, a number, and a token that is neither.
Tokens == Keywords \cup Numbers \cup {"?"}
Inputs(n) == UNION {[1..k -> Tokens] : k \in 0..n}

\* The float a token converts to.
Value(tok) == CASE tok = "1" -> 1
\* What a float holds after an extraction that failed: 0 stored by the
\* conversion, or what the uninitialized variable held.
FailedFloats == {0, 7}

\* The stream an extraction works on.
Cin == [input |-> input, eofbit |-> eofbit, failbit |-> failbit]
\* std::ios::good()
good(s) == ~s.eofbit /\ ~s.failbit
\* The extraction of a token ran into the end of the stream.
HitsEnd(rest) == rest = <<>> /\ ~tail

\* (*input) >> token, for a string: the token read ("" when none) and the stream
\* after it.  A stream that is not good() gets failbit and nothing is read; white
\* space is skipped, and when nothing follows it eofbit and failbit are set; else
\* the token is taken, with eofbit when it ends at the end of the stream.
ReadString(s) ==
    IF ~good(s)
    THEN [tok |-> "", s |-> [s EXCEPT !.failbit = TRUE]]
    ELSE IF s.input = <<>>
    THEN [tok |-> "", s |-> [s EXCEPT !.eofbit = TRUE, !.failbit = TRUE]]
    ELSE [tok |-> Head(s.input),
          s |-> [s EXCEPT !.input = Tail(s.input),
                          !.eofbit = HitsEnd(Tail(s.input))]]

\* (*input) >> x, for a float: whether a number is converted, ...
FloatOk(s) == good(s) /\ s.input # <<>> /\ Head(s.input) \in Numbers
\* ... the values x may hold afterwards, ...
FloatValues(s) == IF FloatOk(s) THEN {Value(Head(s.input))} ELSE FailedFloats
\* ... and the stream after it.  A token that is no number sets failbit, not
\* eofbit, and stays in the stream.
AfterFloat(s) ==
    IF ~good(s)
    THEN [s EXCEPT !.failbit = TRUE]
    ELSE IF s.input = <<>>
    THEN [s EXCEPT !.eofbit = TRUE, !.failbit = TRUE]
    ELSE IF Head(s.input) \in Numbers
    THEN [s EXCEPT !.input = Tail(s.input), !.eofbit = HitsEnd(Tail(s.input))]
    ELSE [s EXCEPT !.failbit = TRUE]

\* std::cin when RptParse is called: any input of at most MaxTokens tokens.
ParseInit ==
    /\ pc = "parse"
    /\ ndebug = FALSE
    /\ origin_x_ = 0
    /\ origin_y_ = 0
    /\ angle_ = 0
    /\ current_pad_ = NULL
    /\ pads = <<>>
    /\ nevents = 0
    /\ min_x = 0 /\ min_y = 0 /\ max_x = 0 /\ max_y = 0
    /\ i = 0
    /\ out = <<>>
    /\ last = [ev |-> "none", a |-> 0, b |-> 0]
    /\ comp = "idle"
    /\ orientation = <<>>
    /\ wellformed = TRUE
    /\ n_end = 0
    /\ n_drilled = 0
    /\ input \in Inputs(MaxTokens)
    /\ tail \in BOOLEAN
    /\ eofbit = FALSE
    /\ failbit = FALSE
    /\ at = "while"

\* while (!input->eof()): the test lets the body run.
ParseLoop ==
    /\ pc = "parse" /\ at = "while"
    /\ ~eofbit
    /\ at' = "body"
    /\ UNCHANGED <<pc, ndebug, collector, nevents, bbox, i, out, history,
                   input, tail, eofbit, failbit>>

\* while (!input->eof()) ends the loop; return true.
ParseReturn ==
    /\ pc = "parse" /\ at = "while"
    /\ eofbit
    /\ pc' = "bbox"
    /\ UNCHANGED <<ndebug, collector, nevents, bbox, i, out, history, stream>>

\* The body leaves the stream as s and goes back to the loop test.
BodyEnds(s) ==
    /\ input' = s.input
    /\ eofbit' = s.eofbit
    /\ failbit' = s.failbit
    /\ at' = "while"
    /\ UNCHANGED <<pc, ndebug, collector, bbox, i, out, counts, tail>>
\* event->ev(a, b)
Call(ev, a, b) ==
    /\ nevents' = nevents + 1
    /\ last' = [ev |-> ev, a |-> a, b |-> b]
\* RptParse is in the body of its loop, about to read a token.
InBody == pc = "parse" /\ at = "body"
\* A branch of the body that reads no number.
Branch(tok, ev) ==
    /\ LET r == ReadString(Cin)
       IN /\ r.tok = tok
          /\ Call(ev, 0, 0)
          /\ BodyEnds(r.s)
\* A branch that reads one float: (*input) >> a; event->ev(a).
Branch1(tok, ev) ==
    /\ LET r == ReadString(Cin)
       IN /\ r.tok = tok
          /\ \E a \in FloatValues(r.s) : Call(ev, a, 0)
          /\ BodyEnds(AfterFloat(r.s))
\* A branch that reads two floats: (*input) >> a >> b; event->ev(a, b).
Branch2(tok, ev) ==
    /\ LET r == ReadString(Cin)
           s1 == AfterFloat(r.s)
       IN /\ r.tok = tok
          /\ \E a \in FloatValues(r.s), b \in FloatValues(s1) : Call(ev, a, b)
          /\ BodyEnds(AfterFloat(s1))

\* if (token == "$MODULE") event->StartComponent();
ParseStartComponent ==
    /\ InBody
    /\ Branch("$MODULE", "StartComponent")
\* else if (token == "$EndMODULE") event->EndComponent();
ParseEndComponent ==
    /\ InBody
    /\ Branch("$EndMODULE", "EndComponent")
\* else if (token == "$PAD") event->StartPad();
ParseStartPad ==
    /\ InBody
    /\ Branch("$PAD", "StartPad")
\* else if (token == "$EndPAD") event->EndPad();
ParseEndPad ==
    /\ InBody
    /\ Branch("$EndPAD", "EndPad")
\* else if (token == "position") { float x, y; (*input) >> x >> y; ... }
ParsePosition ==
    /\ InBody
    /\ Branch2("position", "Position")
\* else if (token == "size") { float w, h; (*input) >> w >> h; ... }
ParseSize ==
    /\ InBody
    /\ Branch2("size", "Size")
\* else if (token == "drill") { float dia; (*input) >> dia; ... }
ParseDrill ==
    /\ InBody
    /\ Branch1("drill", "Drill")
\* else if (token == "orientation") { float angle; (*input) >> angle; ... }
ParseOrientation ==
    /\ InBody
    /\ Branch1("orientation", "Orientation")
\* No branch takes the token (or none was read): the body does nothing more.
ParseOther ==
    /\ InBody
    /\ LET r == ReadString(Cin)
       IN /\ r.tok \notin Keywords
          /\ BodyEnds(r.s)
    /\ UNCHANGED <<nevents, last>>

ParseNext ==
    \/ ParseLoop
    \/ ParseReturn
    \/ ParseStartComponent
    \/ ParseEndComponent
    \/ ParseStartPad
    \/ ParseEndPad
    \/ ParsePosition
    \/ ParseSize
    \/ ParseDrill
    \/ ParseOrientation
    \/ ParseOther

\* The program runs on: a step of RptParse that can be taken is taken.
ParseSpec == ParseInit /\ [][ParseNext]_vars /\ WF_vars(ParseNext)

(***************************************************************************)
(* The claims.                                                             *)
(***************************************************************************)
Fatal == {"aborted", "crashed"}
\* The one failure the program reports: a failed assert() prints and aborts.
Reported == {"aborted"}
NoNullPad == \A k \in 1..Len(pads) : pads[k] # NULL
\* The step is a handler's: RptParse delivered the event ev.
Handled(ev) == nevents' = nevents + 1 /\ last'.ev = ev

\* C1: every pad of the accepted list has drill 0, and an EndPad that meets an
\* open pad whose drill is not 0 appends nothing.
C1_FilterSoundness ==
    /\ [](\A k \in 1..Len(pads) : pads[k] # NULL => Deref(pads[k]).drill = 0)
    /\ [][(Handled("EndPad") /\ current_pad_ # NULL
           /\ Deref(current_pad_).drill # 0) => pads' = pads]_vars
\* A through-hole pad was dropped and a surface-mount pad accepted.
C1_Witness ==
    /\ last.ev = "EndPad"
    /\ n_drilled = 1
    /\ Len(pads) = 1
    /\ NoNullPad

\* The offset (x, y) turned by -pi*angle/180, for the angles of the model.
TurnedBy(angle, x, y) ==
    CASE angle = 0 -> <<x, y>>
      [] angle = 90 -> <<y, -x>>
      [] angle = 180 -> <<-x, -y>>
      [] angle = -90 -> <<-y, x>>
PositionedPad == last.ev = "Position" /\ current_pad_ # NULL
\* C2: a Position(x, y) taken with a pad open stores the offset turned by the
\* component's rotation, moved by the origin and scaled by 25.4; origin (10,10),
\* Orientation 90 and offset (1,0) give (254, 228.6); Orientation 0 and origin
\* (0,0) give the offset times 25.4.
C2_PadPosition ==
    (PositionedPad /\ orientation # <<>>) =>
        LET r == TurnedBy(orientation[1], last.a, last.b)
            pad == Deref(current_pad_)
        IN /\ pad.x = (origin_x_ + r[1]) * 254
           /\ pad.y = (origin_y_ + r[2]) * 254
           /\ (orientation = <<90>> /\ origin_x_ = 10 /\ origin_y_ = 10
               /\ last.a = 1 /\ last.b = 0) => (pad.x = 2540 /\ pad.y = 2286)
           /\ (orientation = <<0>> /\ origin_x_ = 0 /\ origin_y_ = 0)
                => (pad.x = 254 * last.a /\ pad.y = 254 * last.b)
\* The spec's example: the pad at (254, 228.6).
C2_Witness ==
    /\ PositionedPad
    /\ orientation = <<90>> /\ origin_x_ = 10 /\ origin_y_ = 10
    /\ last.a = 1 /\ last.b = 0
    /\ Deref(current_pad_).x = 2540 /\ Deref(current_pad_).y = 2286

\* C3: an EndPad that meets an open pad appends it once if its drill is 0 and
\* leaves the list alone otherwise, and no pad is open afterwards; in a well-formed
\* stream the list holds as many pads as EndPad events less those with a drill.
C3_EndPad ==
    /\ [][(Handled("EndPad") /\ current_pad_ # NULL) =>
            /\ current_pad_' = NULL
            /\ pads' = IF Deref(current_pad_).drill = 0
                       THEN Append(pads, current_pad_)
                       ELSE pads]_vars
    /\ [](wellformed => Len(pads) = n_end - n_drilled)
\* Two pads ended in a well-formed stream, one of them drilled.
C3_Witness ==
    /\ wellformed
    /\ current_pad_ = NULL
    /\ n_end = 2 /\ n_drilled = 1 /\ Len(pads) = 1

\* The list indices handed to Printer::Pad, in order.
RenderedAt(k) == {j \in 1..Len(out) : out[j].op = "Pad" /\ out[j].idx = k}
\* C4: the pads handed to the renderer are the accepted list, each pad once: no
\* call repeats a pad or names none, and once Finish is called none is left out.
C4_RenderIsPermutation ==
    /\ \A j \in 1..Len(out) : out[j].op = "Pad" => out[j].idx \in 1..Len(pads)
    /\ \A k \in 1..Len(pads) : Cardinality(RenderedAt(k)) <= 1
    /\ pc = "done" => \A k \in 1..Len(pads) : Cardinality(RenderedAt(k)) = 1
\* Two accepted pads, both rendered, Finish called.
C4_Witness ==
    /\ pc = "done"
    /\ Len(pads) = 2
    /\ NoNullPad
    /\ Cardinality(RenderedAt(1)) = 1 /\ Cardinality(RenderedAt(2)) = 1

\* C5: a StartPad that meets an open pad is fatal: processing stops and the open
\* pad is not replaced.
C5_NestedStartPadIsFatal ==
    [][(Handled("StartPad") /\ current_pad_ # NULL) =>
            (pc' \in Fatal /\ current_pad_' = current_pad_)]_vars

\* C6: an EndPad that meets no open pad fails in a defined way, leaves the accepted
\* list as it is, and nothing is rendered.
C6_OrphanEndPadIsFatal ==
    [][(Handled("EndPad") /\ current_pad_ = NULL) =>
            (pc' \in Reported /\ pads' = pads /\ out' = <<>>)]_vars

\* C7: with an empty accepted list the bounding-box step reports the empty input
\* and main goes no further: no printer call is made.
C7_EmptyListIsReported ==
    /\ [][(pc = "bbox" /\ pads = <<>>) => (pc' \in Reported /\ UNCHANGED bbox)]_vars
    /\ [](pads = <<>> => out = <<>>)

\* C8: a pad positioned in a component that has had no Position or Orientation of
\* its own is placed with origin (0,0) and rotation 0.
C8_FreshContext ==
    (comp = "fresh" /\ PositionedPad) =>
        /\ Deref(current_pad_).x = 254 * last.a
        /\ Deref(current_pad_).y = 254 * last.b

C10_OtherEventsIgnoredInPad ==
    [][(current_pad_ # NULL
        /\ (Handled("Orientation") \/ Handled("StartComponent")
            \/ Handled("EndComponent"))) =>
            (pc' = pc /\ UNCHANGED collector)]_vars
\* C10 as amended: with a pad open, Orientation and EndComponent change nothing
\* and do not fail; StartComponent changes nothing of the collector either, but
\* fails its assert(current_pad_ == NULL) and aborts, unless the build compiles
\* the assert out.
C10_InPadNoOpsAndAssert ==
    [][current_pad_ # NULL =>
            /\ (Handled("Orientation") \/ Handled("EndComponent")) =>
                    (pc' = pc /\ UNCHANGED collector)
            /\ Handled("StartComponent") =>
                    /\ UNCHANGED collector
                    /\ pc' = IF ndebug THEN pc ELSE "aborted"]_vars
\* StartComponent met an open pad and the assert aborted the run.
C10_Witness ==
    /\ pc = "aborted"
    /\ last.ev = "StartComponent"
    /\ current_pad_ # NULL
    /\ Deref(current_pad_).x = 2540

InComponent == comp # "idle" /\ current_pad_ = NULL
\* C11 as claimed: in a component with no pad open, Size and Drill change nothing
\* and are no error: parsing goes on.
C11_SizeAndDrillIgnored ==
    [][(InComponent /\ (Handled("Size") \/ Handled("Drill"))) =>
            (pc' = pc /\ UNCHANGED collector)]_vars
\* C11 as amended: in a component with no pad open, Size changes nothing and is no
\* error; Drill changes nothing of the collector either but is an error: it fails
\* assert(current_pad_ != NULL) and aborts, and in a build without the assert it
\* stores through NULL, which stops the run or lets it go on.
C11_SizeIgnoredDrillAsserts ==
    [][InComponent =>
            /\ Handled("Size") => (pc' = pc /\ UNCHANGED collector)
            /\ Handled("Drill") =>
                    /\ UNCHANGED collector
                    /\ ~ndebug => pc' = "aborted"
                    /\ ndebug => pc' \in {"crashed", pc}]_vars
\* A Drill in a placed component, with no pad open, aborted the run.
C11_Witness ==
    /\ pc = "aborted"
    /\ last.ev = "Drill" /\ last.a = 8
    /\ comp = "placed"
    /\ current_pad_ = NULL
    /\ origin_x_ = 10

\* C12: what a Position or an Orientation writes depends only on whether a pad is
\* open.  With a pad open a Position writes the x and y of that pad and nothing
\* else; with no pad open in a component a Position stores (x, y) as the origin,
\* unscaled, and an Orientation stores the rotation, and neither touches a pad or
\* the accepted list.
C12_PositionOrientationTarget ==
    /\ [][(Handled("Position") /\ current_pad_ # NULL) =>
            /\ UNCHANGED <<origin_x_, origin_y_, angle_, pads, pc>>
            /\ current_pad_' # NULL
            /\ Deref(current_pad_').drill = Deref(current_pad_).drill
            /\ Deref(current_pad_').area = Deref(current_pad_).area]_vars
    /\ [][(Handled("Position") /\ InComponent) =>
            /\ <<origin_x_', origin_y_'>> \in Points
            /\ <<origin_x_', origin_y_'>> = <<last'.a, last'.b>>
            /\ UNCHANGED <<angle_, current_pad_, pads, pc>>]_vars
    /\ [][(Handled("Orientation") /\ InComponent) =>
            /\ angle_' % 360 = (360 - last'.a) % 360
            /\ UNCHANGED <<origin_x_, origin_y_, current_pad_, pads, pc>>]_vars
\* A component placed at (10,10) after a pad has been accepted, the pad untouched.
C12_Witness ==
    /\ last = [ev |-> "Position", a |-> 10, b |-> 10]
    /\ comp = "placed"
    /\ current_pad_ = NULL
    /\ origin_x_ = 10 /\ origin_y_ = 10
    /\ Len(pads) = 1 /\ NoNullPad
    /\ Deref(pads[1]).x = 254

\* The Pad calls made on the printer, in order.
PadCalls == SelectSeq(out, LAMBDA c : c.op = "Pad")
\* The square of the distance between two points with fields x and y.
Dist2(p, q) == (p.x - q.x) * (p.x - q.x) + (p.y - q.y) * (p.y - q.y)
DistinctPoints == {<<Deref(pads[k]).x, Deref(pads[k]).y>> : k \in 1..Len(pads)}
\* C13: the path through the pads as rendered is no longer than the path through
\* the accepted list in its own order, for at least 3 distinct points: once Finish
\* is called there are as many legs, and no rendered leg is longer than the leg of
\* the list at the same place (so neither is the sum of their lengths).
C13_RenderedPathNotLonger ==
    (pc = "done" /\ NoNullPad /\ Cardinality(DistinctPoints) >= 3) =>
        /\ Len(PadCalls) = Len(pads)
        /\ \A k \in 1..(Len(pads) - 1) :
                Dist2(PadCalls[k], PadCalls[k + 1])
                    <= Dist2(Deref(pads[k]), Deref(pads[k + 1]))
\* Three pads at three places, rendered.
C13_Witness ==
    /\ pc = "done"
    /\ Len(pads) = 3
    /\ Cardinality(DistinctPoints) = 3
    /\ Len(PadCalls) = 3
    /\ Dist2(PadCalls[1], PadCalls[2]) > 0
    /\ Dist2(PadCalls[2], PadCalls[3]) > Dist2(PadCalls[1], PadCalls[2])

\* The pad the k-th Pad call renders.
Rendered(k) == Deref(pads[PadCalls[k].idx])
\* (y, then x) of p is below that of q, or the same.
LowestFirst(p, q) == p.y < q.y \/ (p.y = q.y /\ p.x <= q.x)
C15_SizeSetsArea ==
    /\ [][(Handled("Size") /\ current_pad_ # NULL) =>
            /\ current_pad_' =
                <<[Deref(current_pad_) EXCEPT !.area = last'.a * last'.b * 64516]>>
            /\ UNCHANGED <<origin_x_, origin_y_, angle_, pads, pc>>]_vars
    /\ [][(Handled("Size") /\ current_pad_ = NULL) =>
            UNCHANGED <<collector, pc>>]_vars
    /\ []((last.ev = "Size" /\ current_pad_ # NULL) =>
            Deref(current_pad_).area = last.a * last.b * 254 * 254)
\* A positioned pad whose area a Size(2,3) has set to 6 * 645.16.
C15_Witness ==
    /\ last = [ev |-> "Size", a |-> 2, b |-> 3]
    /\ current_pad_ # NULL
    /\ Deref(current_pad_).area = 387096
    /\ Deref(current_pad_).x = 254

BoxComputed == pc \in {"init", "render", "done"}
\* C16: for a list that is not empty the bounding box is the least and the greatest
\* x and y of the accepted pads: every pad lies within the four bounds and each
\* bound is the coordinate of some pad.
C16_BoundingBox ==
    (BoxComputed /\ pads # <<>> /\ NoNullPad) =>
        /\ \A k \in 1..Len(pads) :
                /\ min_x <= Deref(pads[k]).x /\ Deref(pads[k]).x <= max_x
                /\ min_y <= Deref(pads[k]).y /\ Deref(pads[k]).y <= max_y
        /\ \E k \in 1..Len(pads) : Deref(pads[k]).x = min_x
        /\ \E k \in 1..Len(pads) : Deref(pads[k]).x = max_x
        /\ \E k \in 1..Len(pads) : Deref(pads[k]).y = min_y
        /\ \E k \in 1..Len(pads) : Deref(pads[k]).y = max_y
\* A box whose bounds come from three pads, none of them from the first only.
C16_Witness ==
    /\ pc = "init"
    /\ Len(pads) = 3
    /\ min_x = 0 /\ max_x = 2794 /\ min_y = -254 /\ max_y = 2540
    /\ Deref(pads[1]).x = 254 /\ Deref(pads[1]).y = 0

\* The box of a list whose elements are all pads, as main computes it.
BoxOfList == Bounds(PadsRead(NewPad), FirstRead(NewPad))
\* C17: the stages run one after the other.  The printer is called only when the
\* parser has returned and the box has been computed over the whole list; the
\* calls are Init, then Pad for pads[0], pads[1], ... each once, then Finish; no
\* event is handled and the list is not written once the parser has returned.
C17_StageOrdering ==
    /\ [](out # <<>> =>
            /\ pc \in {"render", "done", "crashed"}
            /\ out[1].op = "Init"
            /\ (pads # <<>> /\ NoNullPad) => <<min_x, min_y, max_x, max_y>> = BoxOfList
            /\ \A j \in 2..Len(out) :
                    \/ out[j].op = "Pad" /\ out[j].idx = j - 1 /\ j - 1 <= Len(pads)
                    \/ out[j].op = "Finish" /\ j = Len(out) /\ pc = "done")
    /\ [](pc = "done" => (Len(out) = Len(pads) + 2 /\ out[Len(out)].op = "Finish"))
    /\ [][pc # "parse" => (pads' = pads /\ nevents' = nevents)]_vars
    /\ [][out' # out => (pc \notin {"parse", "bbox"} /\ pads' = pads)]_vars
\* A run to the end over two pads: Init, Pad, Pad, Finish.
C17_Witness ==
    /\ pc = "done"
    /\ Len(pads) = 2 /\ NoNullPad
    /\ Len(out) = 4
    /\ out[1].op = "Init" /\ out[2].op = "Pad" /\ out[3].op = "Pad" /\ out[4].op = "Finish"
    /\ nevents > 0

\* The Pad calls made so far.
PadCallsMade == {j \in 1..Len(out) : out[j].op = "Pad"}
\* C19: for a list that is not empty, every Pad call carries
\* X = x + offset_x - min_x and Y = max_y - y + offset_y of its pad, and both lie
\* inside the box handed to Init: offset_x <= X <= (max_x - min_x) + offset_x and
\* offset_y <= Y <= (max_y - min_y) + offset_y.
C19_PadInsideInitBox ==
    (pads # <<>> /\ NoNullPad /\ out # <<>>) =>
        /\ out[1] = [op |-> "Init", min_x |-> offset_x, min_y |-> offset_y,
                     max_x |-> (max_x - min_x) + offset_x,
                     max_y |-> (max_y - min_y) + offset_y]
        /\ \A j \in PadCallsMade :
                /\ out[j].x = Deref(pads[out[j].idx]).x + offset_x - min_x
                /\ out[j].y = max_y - Deref(pads[out[j].idx]).y + offset_y
                /\ out[1].min_x <= out[j].x /\ out[j].x <= out[1].max_x
                /\ out[1].min_y <= out[j].y /\ out[j].y <= out[1].max_y
\* Three pads rendered, one on the upper and one on the lower edge of the box.
C19_Witness ==
    /\ pc = "done"
    /\ Len(pads) = 3 /\ NoNullPad
    /\ max_y - min_y = 2794
    /\ \E j \in PadCallsMade : out[j].y = offset_y /\ out[j].x > offset_x
    /\ \E j \in PadCallsMade : out[j].y = 2794 + offset_y /\ out[j].x = offset_x

\* C20: while events are handled the list only grows at its end.  A step that
\* changes the list is the handling of an EndPad and appends the pad open at that
\* moment, so what the list held stays as its prefix, entry by entry, whatever
\* Position, Size, Drill, Orientation, component or pad events follow, and the
\* entries stand in the order of their EndPad events.
C20_AppendOnly ==
    /\ [][pads' # pads =>
            /\ Handled("EndPad")
            /\ pads' = Append(pads, current_pad_)]_vars
    /\ [][/\ Len(pads') >= Len(pads)
          /\ \A k \in 1..Len(pads) : pads'[k] = pads[k]]_vars
    /\ [](Len(pads) <= n_end)
\* Two pads accepted, the one closed first standing first.
C20_Witness ==
    /\ Len(pads) = 2 /\ NoNullPad
    /\ Deref(pads[1]).area = 0
    /\ Deref(pads[2]).area = 387096
    /\ last.ev = "EndPad" /\ n_end = 2

\* C18: RptParse returns on every finite input: whatever tokens the stream holds,
\* a numeric keyword followed by a token that is no number or by the end of the
\* input included, the loop is left at some moment.
C18_ParseTerminates == <>(pc # "parse")
====
